---- MODULE Spec2Model ----
(***************************************************************************)
(* Supercow (src/src/lib.rs): a container that is Owned, Borrowed or       *)
(* Shared, and dereferences without looking at its state, through the      *)
(* cached pair (ptr_mask, ptr_displacement).                                *)
(*                                                                         *)
(* Memory is modelled by addresses:                                        *)
(*   - every container occupies SizeOfSelf address units starting at       *)
(*     SlotAddr(s); slot 0 is the temporary `this` of from_data / the      *)
(*     struct literal of clone and take_ownership, slots 1..NSlots are     *)
(*     the places a caller keeps containers in;                            *)
(*   - the caller's borrowed referents live at ExtAddr(e);                 *)
(*   - heap cells at HeapAddr(h) hold String buffers and Rc backings.      *)
(* Two instantiations are covered, chosen by `ty`:                         *)
(*   "u32": Supercow<u32>          (owned value stored inline)             *)
(*   "str": Supercow<String, str>  (owned value keeps its bytes on the     *)
(*                                  heap; &str is a fat pointer addr+len)  *)
(***************************************************************************)
EXTENDS Integers, Sequences, FiniteSets, TLC

\* ------------------------------------------------------------- bounds
NSlots == 2
NHeap == 2
NExt == 1
MaxVal == 1
MaxLen == 1
WordBits == 8
SlotBase == 16
ExtBase == 64
HeapBase == 128
StaticEmpty == 200

\* ------------------------------------------------------------- layout
SizeOfSelf == 4
OwnedOffset == SizeOfSelf - 1
Dangling == 1

Slots == 1 .. NSlots
Cells == 1 .. NHeap
Exts == 1 .. NExt
Chars == {"a", "b"}
Types == {"u32", "str"}

Pow2(n) == 2 ^ n
Word == Pow2(WordBits)
AllOnes == Word - 1

SlotAddr(s) == SlotBase + s * SizeOfSelf
ExtAddr(e) == ExtBase + e
HeapAddr(h) == HeapBase + h

RECURSIVE BitAndN(_, _, _)
BitAndN(a, b, n) ==
    IF n = 0 THEN 0
    ELSE (a % 2) * (b % 2) + 2 * BitAndN(a \div 2, b \div 2, n - 1)

BitAnd(a, b) == BitAndN(a, b, WordBits)

\* ------------------------------------------------------------- values
Strs == UNION {[1 .. n -> Chars] : n \in 0 .. MaxLen}
Ints == 0 .. MaxVal
Vals(t) == IF t = "u32" THEN Ints ELSE Strs
DefaultVal(t) == IF t = "u32" THEN 0 ELSE <<>>
ValLen(t, v) == IF t = "u32" THEN 0 ELSE Len(v)
Prefix(v, n) == SubSeq(v, 1, n)

\* ------------------------------------------------------------- state
VARIABLES
    ty,     \* the instantiation: "u32" or "str"
    cows,   \* slot -> the Supercow stored there (or Vacant)
    refs,   \* slot -> the open Ref whose parent is that slot (or NoRef)
    heap,   \* cell -> String buffer or reference-counted backing
    ext,    \* the caller's variables that containers borrow
    junk,   \* what a read of freed memory yields (undefined behaviour)
    last,   \* the last operation, with what dereference gave before it
    origin  \* slot -> the slot of the container it was cloned from (0: none)

vars == <<ty, cows, refs, heap, ext, junk, last, origin>>

\* A reference &BORROWED: the address first (PointerFirstRef), then the
\* length of a fat pointer (0 for the thin &u32).
Ptr(a, n) == [addr |-> a, len |-> n]
NullPtr == Ptr(0, 0)

Vacant == [ptr_displacement |-> NullPtr, ptr_mask |-> 0, state |-> [tag |-> "Vacant"]]
\* A Ref: the raw pointer r to the parent's owned value; moved records
\* whether a write through it has relocated that value's storage.
NoRef == [open |-> FALSE, r |-> 0, moved |-> FALSE]

\* A heap cell: a String's buffer (val is every byte of the allocation, its
\* length the capacity; strong = 0) or the backing of an Rc (val is the
\* target, strong the reference count, user the handles the caller kept).
DeadCell == [live |-> FALSE, val |-> DefaultVal(ty), strong |-> 0, user |-> 0]
BufCell(v) == [live |-> TRUE, val |-> v, strong |-> 0, user |-> 0]
RcCell(v, n, u) == [live |-> TRUE, val |-> v, strong |-> n, user |-> u]

Live(s) == cows[s].state.tag # "Vacant"
Tag(s) == cows[s].state.tag
Guarded(s) == refs[s].open
FreeSlots == {s \in Slots : ~Live(s)}
FreeCells == {h \in Cells : ~heap[h].live}
\* Containers a caller can use: the borrow checker forbids any use of a
\* container while a Ref borrows it mutably.
Usable == {s \in Slots : Live(s) /\ ~Guarded(s)}

\* ------------------------------------------------------------- memory
\* The value read through a reference p, in heap hp, containers cw,
\* caller variables ex.  A zero-length str reads no memory.
LoadIn(p, cw, hp, ex, jk) ==
    IF ty = "str" /\ p.len = 0 THEN <<>>
    ELSE IF \E h \in Cells : HeapAddr(h) = p.addr
    THEN LET h == CHOOSE h \in Cells : HeapAddr(h) = p.addr
         IN IF ~hp[h].live THEN jk
            ELSE IF ty = "u32" THEN hp[h].val
            ELSE IF p.len <= Len(hp[h].val) THEN Prefix(hp[h].val, p.len)
            ELSE jk
    ELSE IF \E e \in Exts : ExtAddr(e) = p.addr
    THEN LET e == CHOOSE e \in Exts : ExtAddr(e) = p.addr
         IN IF ty = "u32" THEN ex[e]
            ELSE IF p.len <= Len(ex[e]) THEN Prefix(ex[e], p.len) ELSE jk
    ELSE IF ty = "u32" /\ \E s \in Slots : /\ SlotAddr(s) + OwnedOffset = p.addr
                                          /\ cw[s].state.tag = "Owned"
    THEN LET s == CHOOSE s \in Slots : SlotAddr(s) + OwnedOffset = p.addr
         IN cw[s].state.o
    ELSE jk

Load(p) == LoadIn(p, cows, heap, ext, junk)

\* ------------------------------------------------------------- the code
\* An OWNED is the u32 itself, or the String [cell, len]: cell is the heap
\* cell of its buffer, 0 for a String of capacity 0 (no allocation).
\* OwnedVal: the value of an OWNED.
OwnedVal(o, hp) ==
    IF ty = "u32" THEN o
    ELSE IF o.len = 0 THEN <<>>
    ELSE Prefix(hp[o.cell].val, o.len)

Capacity(o, hp) == IF o.cell = 0 THEN 0 ELSE Len(hp[o.cell].val)

\* Building an OWNED with value v (String::from, ToOwned::to_owned,
\* Clone::clone): the cells it may be allocated in (0: none needed), the
\* OWNED, and the heap afterwards.
AllocFor(v, hp) ==
    IF ty = "u32" \/ v = <<>> THEN {0} ELSE {h \in Cells : ~hp[h].live}
MkOwned(v, h) == IF ty = "u32" THEN v ELSE [cell |-> h, len |-> Len(v)]
HeapWith(hp, h, v) == IF h = 0 THEN hp ELSE [hp EXCEPT ![h] = BufCell(v)]

\* Dropping an OWNED / one unit of a shared backing.
FreeOwned(o, hp) ==
    IF ty = "u32" \/ o.cell = 0 THEN hp ELSE [hp EXCEPT ![o.cell] = DeadCell]
Release(h, hp) ==
    IF hp[h].strong <= 1 THEN [hp EXCEPT ![h] = DeadCell]
    ELSE [hp EXCEPT ![h].strong = @ - 1]
\* Dropping a SupercowData.
DropData(d, hp) ==
    CASE d.tag = "Owned" -> FreeOwned(d.o, hp)
      [] d.tag = "Shared" -> Release(d.s, hp)
      [] OTHER -> hp
Frees(hp, hq) == \E h \in Cells : hp[h].live /\ ~hq[h].live

\* OWNED::borrow() of the owned value o of a container at address at.
Borrow(o, at) ==
    IF ty = "u32" THEN Ptr(at + OwnedOffset, 0)
    ELSE IF o.cell = 0 THEN Ptr(Dangling, o.len)
    ELSE Ptr(HeapAddr(o.cell), o.len)

\* ConstDeref::const_deref() of the shared backing in cell h.
ConstDeref(h, hp) == Ptr(HeapAddr(h), ValLen(ty, hp[h].val))

\* adjust_ptr without the relative mode.
AdjustPtrAbsolute(c, at) == [c EXCEPT !.ptr_mask = 0]

\* adjust_ptr that sets the relative mode and keeps the address as it is.
AdjustPtrKeepsAddr(c, at) ==
    LET self_start == at
        self_end == self_start + SizeOfSelf
        addr == c.ptr_displacement.addr
    IN IF addr >= self_start /\ addr < self_end
       THEN [c EXCEPT !.ptr_mask = AllOnes]
       ELSE [c EXCEPT !.ptr_mask = 0]

\* Supercow::adjust_ptr on container c standing at address at.
AdjustPtr(c, at) ==
    LET self_start == at
        self_end == self_start + SizeOfSelf
        addr == c.ptr_displacement.addr
    IN IF addr >= self_start /\ addr < self_end
       THEN [c EXCEPT !.ptr_mask = AllOnes,
                      !.ptr_displacement.addr = addr - self_start]
       ELSE [c EXCEPT !.ptr_mask = 0]

\* Supercow::set_ptr on container c standing at address at.
SetPtr(c, at, hp) ==
    LET borrowed_ptr ==
          CASE c.state.tag = "Owned" -> Borrow(c.state.o, at)
            [] c.state.tag = "Borrowed" -> c.state.r
            [] c.state.tag = "Shared" -> ConstDeref(c.state.s, hp)
    IN AdjustPtr([c EXCEPT !.ptr_displacement = borrowed_ptr], at)

\* Supercow::from_data: built and resolved in the temporary `this`.
FromData(data, hp) ==
    SetPtr([ptr_displacement |-> NullPtr, ptr_mask |-> 0, state |-> data],
           SlotAddr(0), hp)

\* deref that adds the container's address whatever the mask.
DerefUnmasked(c, at) ==
    Ptr((at + c.ptr_displacement.addr) % Word, c.ptr_displacement.len)

\* Deref::deref of container c standing at address at: the reference it
\* returns, from the cached metadata alone.
Deref(c, at) ==
    Ptr((BitAnd(at, c.ptr_mask) + c.ptr_displacement.addr) % Word,
        c.ptr_displacement.len)

\* Dereference by dispatching on the state tag (spec section 9).
TargetPtr(c, at, hp) ==
    CASE c.state.tag = "Owned" -> Borrow(c.state.o, at)
      [] c.state.tag = "Borrowed" -> c.state.r
      [] c.state.tag = "Shared" -> ConstDeref(c.state.s, hp)

DerefPtr(s) == Deref(cows[s], SlotAddr(s))
DerefVal(s) == Load(DerefPtr(s))
StatePtr(s) == TargetPtr(cows[s], SlotAddr(s), heap)
StateVal(s) == Load(StatePtr(s))

\* SafeBorrow::borrow_replacement: the identity for T = T, "" for str.
BorrowReplacement(p) == IF ty = "u32" THEN p ELSE Ptr(StaticEmpty, 0)

\* The reference a state holds when it is not Owned, and its value.
SourcePtr(d, hp) ==
    IF d.tag = "Borrowed" THEN d.r ELSE ConstDeref(d.s, hp)

\* The record of an operation: its name, the slot of the container it
\* left (or consumed), the slot of the container it read (clone, move,
\* take_ownership; else 0), the value dereference gave before it (move,
\* to_mut, take_ownership, into_inner), and a result (the input of a
\* constructor, the value into_inner returned, the owned value at release).
\* moved: at a release, whether a write relocated the owned value's storage
\* while the Ref was open.  conv: how many times the operation called
\* ToOwned::to_owned.  was: at a to_mut of a container that is already
\* Owned, the container as it was before.
Note(op, s, src, pre, ret) ==
    [op |-> op, slot |-> s, src |-> src, pre |-> pre, ret |-> ret,
     moved |-> FALSE, conv |-> 0, was |-> Vacant]

\* The calls of ToOwned::to_owned in the match on the state that to_mut,
\* take_ownership and into_inner start with.
ToOwnedCalls(d) ==
    CASE d.tag = "Owned" -> 0
      [] d.tag = "Borrowed" -> 1
      [] d.tag = "Shared" -> 1

\* Freed memory reads as anything from then on.
Havoc(hp, hq) == junk' \in (IF Frees(hp, hq) THEN Vals(ty) ELSE {junk})

\* The order of the target type: u32's, and str's (lexicographic by byte).
CharOrd(ch) == IF ch = "a" THEN 0 ELSE 1
RECURSIVE StrCmp(_, _)
StrCmp(v, w) ==
    IF v = <<>> /\ w = <<>> THEN 0
    ELSE IF v = <<>> THEN -1
    ELSE IF w = <<>> THEN 1
    ELSE IF CharOrd(Head(v)) < CharOrd(Head(w)) THEN -1
    ELSE IF CharOrd(Head(v)) > CharOrd(Head(w)) THEN 1
    ELSE StrCmp(Tail(v), Tail(w))
ValCmp(v, w) ==
    IF ty = "u32" THEN (IF v < w THEN -1 ELSE IF v > w THEN 1 ELSE 0)
    ELSE StrCmp(v, w)
\* What Hash::hash of the target writes to the hasher: the u32, or the
\* bytes of the str followed by the terminator 0xff.
HashFeed(v) == IF ty = "u32" THEN <<v>> ELSE Append(v, "ff")

\* PartialEq, PartialOrd, Ord and Hash for Supercow: all through deref.
Eq(a, b) == DerefVal(a) = DerefVal(b)
Ne(a, b) == DerefVal(a) # DerefVal(b)
PartialCmp(a, b) == ValCmp(DerefVal(a), DerefVal(b))
Lt(a, b) == ValCmp(DerefVal(a), DerefVal(b)) < 0
Le(a, b) == ValCmp(DerefVal(a), DerefVal(b)) <= 0
Gt(a, b) == ValCmp(DerefVal(a), DerefVal(b)) > 0
Ge(a, b) == ValCmp(DerefVal(a), DerefVal(b)) >= 0
Cmp(a, b) == ValCmp(DerefVal(a), DerefVal(b))
Hash(a) == HashFeed(DerefVal(a))

\* The clone relation when the container of slot s is gone (Forget), or has
\* moved to slot t (Rename).
Forget(org, s) == [x \in Slots |-> IF x = s \/ org[x] = s THEN 0 ELSE org[x]]
Rename(org, s, t) ==
    [x \in Slots |-> IF x = s THEN 0
                     ELSE IF x = t THEN org[s]
                     ELSE IF org[x] = s THEN t ELSE org[x]]

\* ------------------------------------------------------------- Init
Init ==
    /\ ty \in Types
    /\ cows = [s \in Slots |-> Vacant]
    /\ refs = [s \in Slots |-> NoRef]
    /\ heap = [h \in Cells |-> DeadCell]
    /\ ext \in [Exts -> Vals(ty)]
    /\ junk = DefaultVal(ty)
    /\ last = Note("init", 0, 0, DefaultVal(ty), DefaultVal(ty))
    /\ origin = [s \in Slots |-> 0]

\* ------------------------------------------------------------- actions
\* Supercow::owned(inner), the result stored in slot s.
Owned(s, v) ==
    /\ s \in FreeSlots
    /\ \E h \in AllocFor(v, heap) :
         LET hp == HeapWith(heap, h, v) IN
         /\ heap' = hp
         /\ cows' = [cows EXCEPT ![s] = FromData([tag |-> "Owned", o |-> MkOwned(v, h)], hp)]
    /\ last' = Note("owned", s, 0, v, v)
    /\ UNCHANGED <<ty, refs, ext, junk, origin>>

\* Supercow::borrowed(&x) for the caller's variable e.
Borrowed(s, e) ==
    /\ s \in FreeSlots
    /\ cows' = [cows EXCEPT ![s] =
                  FromData([tag |-> "Borrowed", r |-> Ptr(ExtAddr(e), ValLen(ty, ext[e]))], heap)]
    /\ last' = Note("borrowed", s, 0, ext[e], ext[e])
    /\ UNCHANGED <<ty, refs, heap, ext, junk, origin>>

\* Supercow::shared(Rc::new(v)); with keep = 1 the caller keeps a handle
\* of the same Rc.
Shared(s, v, keep) ==
    /\ s \in FreeSlots
    /\ \E h \in FreeCells :
         LET hp == [heap EXCEPT ![h] = RcCell(v, 1 + keep, keep)] IN
         /\ heap' = hp
         /\ cows' = [cows EXCEPT ![s] = FromData([tag |-> "Shared", s |-> h], hp)]
    /\ last' = Note("shared", s, 0, v, v)
    /\ UNCHANGED <<ty, refs, ext, junk, origin>>

\* The caller drops a handle it kept.
UserRcDrop(h) ==
    /\ heap[h].live /\ heap[h].user > 0
    /\ LET hp == Release(h, [heap EXCEPT ![h].user = @ - 1]) IN
         heap' = hp /\ Havoc(heap, hp)
    /\ last' = Note("rc_drop", 0, 0, DefaultVal(ty), DefaultVal(ty))
    /\ UNCHANGED <<ty, cows, refs, ext, origin>>

\* A move of the container (a bitwise copy) from slot s to slot t.
Move(s, t) ==
    /\ s \in Usable /\ t \in FreeSlots
    /\ cows' = [cows EXCEPT ![t] = cows[s], ![s] = Vacant]
    /\ last' = Note("move", t, s, DerefVal(s), DerefVal(s))
    /\ origin' = Rename(origin, s, t)
    /\ UNCHANGED <<ty, refs, heap, ext, junk>>

\* clone that takes ownership of a borrowed u32.
CloneOfPromotes(c, h) ==
    [ptr_mask |-> c.ptr_mask,
     ptr_displacement |-> c.ptr_displacement,
     state |-> CASE c.state.tag = "Owned" ->
                      [tag |-> "Owned", o |-> MkOwned(OwnedVal(c.state.o, heap), h)]
                 [] c.state.tag = "Borrowed" ->
                      IF ty = "u32" THEN [tag |-> "Owned", o |-> Load(c.state.r)]
                      ELSE c.state
                 [] c.state.tag = "Shared" -> c.state]

\* Clone::clone of the container in slot s, the result stored in slot t.
CloneOf(c, h) ==
    [ptr_mask |-> c.ptr_mask,
     ptr_displacement |-> c.ptr_displacement,
     state |-> CASE c.state.tag = "Owned" ->
                      [tag |-> "Owned", o |-> MkOwned(OwnedVal(c.state.o, heap), h)]
                 [] c.state.tag = "Borrowed" -> c.state
                 [] c.state.tag = "Shared" -> c.state]

\* clone that copies the shared backing's handle without counting it.
CloneHeapUncounted(c, h) ==
    IF c.state.tag = "Owned" THEN HeapWith(heap, h, OwnedVal(c.state.o, heap)) ELSE heap

CloneHeap(c, h) ==
    CASE c.state.tag = "Owned" -> HeapWith(heap, h, OwnedVal(c.state.o, heap))
      [] c.state.tag = "Borrowed" -> heap
      [] c.state.tag = "Shared" -> [heap EXCEPT ![c.state.s].strong = @ + 1]

Clone(s, t) ==
    /\ s \in Usable /\ t \in FreeSlots
    /\ \E h \in (IF Tag(s) = "Owned" THEN AllocFor(OwnedVal(cows[s].state.o, heap), heap) ELSE {0}) :
         /\ cows' = [cows EXCEPT ![t] = CloneOf(cows[s], h)]
         /\ heap' = CloneHeap(cows[s], h)
    /\ last' = Note("clone", t, s, DefaultVal(ty), DefaultVal(ty))
    /\ origin' = [origin EXCEPT ![t] = s]
    /\ UNCHANGED <<ty, refs, ext, junk>>

\* Supercow::to_mut, lines 429-436: take ownership if the container does
\* not have it; h is the cell the copy is allocated in.
Promote(c, h, hp) ==
    IF c.state.tag = "Owned" THEN c
    ELSE LET v == LoadIn(SourcePtr(c.state, hp), cows, hp, ext, junk)
         IN FromData([tag |-> "Owned", o |-> MkOwned(v, h)], HeapWith(hp, h, v))

PromoteHeap(c, h, hp) ==
    IF c.state.tag = "Owned" THEN hp
    ELSE LET v == LoadIn(SourcePtr(c.state, hp), cows, hp, ext, junk)
         IN DropData(c.state, HeapWith(hp, h, v))

PromoteCells(c, hp) ==
    IF c.state.tag = "Owned" THEN {0}
    ELSE AllocFor(LoadIn(SourcePtr(c.state, hp), cows, hp, ext, junk), hp)

\* Supercow::to_mut, lines 445-447: the placeholder metadata.
Placeholder(c, at) ==
    AdjustPtr([c EXCEPT !.ptr_displacement = BorrowReplacement(c.ptr_displacement)], at)

\* Supercow::to_mut, lines 438-441 and 449: the Ref it returns.
MkRef(s) == [open |-> TRUE, r |-> SlotAddr(s) + OwnedOffset, moved |-> FALSE]

ToMut(s) ==
    /\ s \in Usable
    /\ \E h \in PromoteCells(cows[s], heap) :
         LET hp == PromoteHeap(cows[s], h, heap) IN
         /\ cows' = [cows EXCEPT ![s] = Placeholder(Promote(cows[s], h, heap), SlotAddr(s))]
         /\ heap' = hp
         /\ Havoc(heap, hp)
    /\ refs' = [refs EXCEPT ![s] = MkRef(s)]
    /\ last' = [Note("to_mut", s, 0, DerefVal(s), DerefVal(s))
                   EXCEPT !.conv = ToOwnedCalls(cows[s].state),
                          !.was = IF Tag(s) = "Owned" THEN cows[s] ELSE Vacant]
    /\ UNCHANGED <<ty, ext, origin>>

\* The container whose owned value the Ref of slot s points at
\* (Deref / DerefMut for Ref: &*self.r, &mut *self.r).
RefTarget(s) == CHOOSE x \in Slots : SlotAddr(x) + OwnedOffset = refs[s].r
RefOwned(s) == cows[RefTarget(s)].state.o
RefVal(s) == OwnedVal(RefOwned(s), heap)

\* *guard = v on a u32.
Write(s, v) ==
    /\ ty = "u32" /\ Guarded(s)
    /\ cows' = [cows EXCEPT ![RefTarget(s)].state.o = v]
    /\ last' = Note("write", s, 0, DefaultVal(ty), DefaultVal(ty))
    /\ UNCHANGED <<ty, refs, heap, ext, junk, origin>>

\* guard.push(ch) on a String: in place while the capacity lasts, else
\* the buffer is reallocated, growing where it is or moving to cell h.
Push(s, ch) ==
    /\ ty = "str" /\ Guarded(s)
    /\ LET o == RefOwned(s)
           v == Append(RefVal(s), ch)
       IN /\ o.len < MaxLen
          /\ IF o.len < Capacity(o, heap)
             THEN /\ heap' = [heap EXCEPT ![o.cell].val[o.len + 1] = ch]
                  /\ cows' = [cows EXCEPT ![RefTarget(s)].state.o.len = o.len + 1]
                  /\ junk' = junk
                  /\ refs' = refs
             ELSE \E h \in FreeCells \cup ({o.cell} \ {0}) :
                    LET hp == [FreeOwned(o, heap) EXCEPT ![h] = BufCell(v)] IN
                    /\ heap' = hp
                    /\ cows' = [cows EXCEPT ![RefTarget(s)].state.o = [cell |-> h, len |-> Len(v)]]
                    /\ junk' \in (IF h = o.cell \/ o.cell = 0 THEN {junk} ELSE Vals(ty))
                    /\ refs' = [refs EXCEPT ![s].moved = @ \/ h # o.cell]
          /\ last' = Note("write", s, 0, DefaultVal(ty), DefaultVal(ty))
    /\ UNCHANGED <<ty, ext, origin>>

\* guard.pop() on a String: the length shrinks, the buffer stays.
Pop(s) ==
    /\ ty = "str" /\ Guarded(s)
    /\ RefOwned(s).len > 0
    /\ cows' = [cows EXCEPT ![RefTarget(s)].state.o.len = @ - 1]
    /\ last' = Note("write", s, 0, DefaultVal(ty), DefaultVal(ty))
    /\ UNCHANGED <<ty, refs, heap, ext, junk, origin>>

\* An in-place change of byte i of the String (str::make_ascii_uppercase
\* and the like, reached through DerefMut).
SetByte(s, i, ch) ==
    /\ ty = "str" /\ Guarded(s)
    /\ i \in 1 .. RefOwned(s).len
    /\ RefVal(s)[i] # ch
    /\ heap' = [heap EXCEPT ![RefOwned(s).cell].val[i] = ch]
    /\ last' = Note("write", s, 0, DefaultVal(ty), DefaultVal(ty))
    /\ UNCHANGED <<ty, cows, refs, ext, junk, origin>>

\* A release that leaves the placeholder metadata in place.
GuardDropKeepsPlaceholder(s) ==
    /\ Guarded(s)
    /\ refs' = [refs EXCEPT ![s] = NoRef]
    /\ last' = [Note("release", s, 0, RefVal(s), RefVal(s)) EXCEPT !.moved = refs[s].moved]
    /\ UNCHANGED <<ty, cows, heap, ext, junk, origin>>

\* Drop for Ref: self.parent.set_ptr().
GuardDrop(s) ==
    /\ Guarded(s)
    /\ cows' = [cows EXCEPT ![s] = SetPtr(cows[s], SlotAddr(s), heap)]
    /\ refs' = [refs EXCEPT ![s] = NoRef]
    /\ last' = [Note("release", s, 0, RefVal(s), RefVal(s)) EXCEPT !.moved = refs[s].moved]
    /\ UNCHANGED <<ty, heap, ext, junk, origin>>

\* Supercow::take_ownership(this): the container it returns.
TakeOwnershipCow(c, h, hp) ==
    IF c.state.tag = "Owned"
    THEN [ptr_mask |-> c.ptr_mask,
          ptr_displacement |-> c.ptr_displacement,
          state |-> [tag |-> "Owned", o |-> c.state.o]]
    ELSE Promote(c, h, hp)

TakeOwnership(s, t) ==
    /\ s \in Usable /\ t \in FreeSlots \cup {s}
    /\ \E h \in PromoteCells(cows[s], heap) :
         LET hp == PromoteHeap(cows[s], h, heap) IN
         /\ cows' = [cows EXCEPT ![s] = Vacant, ![t] = TakeOwnershipCow(cows[s], h, heap)]
         /\ heap' = hp
         /\ Havoc(heap, hp)
    /\ last' = [Note("take_ownership", t, s, DerefVal(s), DerefVal(s))
                   EXCEPT !.conv = ToOwnedCalls(cows[s].state)]
    /\ origin' = [Forget(origin, s) EXCEPT ![t] = 0]
    /\ UNCHANGED <<ty, refs, ext>>

\* Supercow::into_inner(this): the OWNED it returns, as a value; the
\* caller is done with it at once.
IntoInnerVal(c, hp) ==
    IF c.state.tag = "Owned" THEN OwnedVal(c.state.o, hp)
    ELSE LoadIn(SourcePtr(c.state, hp), cows, hp, ext, junk)

IntoInner(s) ==
    /\ s \in Usable
    /\ LET hp == DropData(cows[s].state, heap) IN
         heap' = hp /\ Havoc(heap, hp)
    /\ cows' = [cows EXCEPT ![s] = Vacant]
    /\ last' = [Note("into_inner", s, 0, DerefVal(s), IntoInnerVal(cows[s], heap))
                   EXCEPT !.conv = ToOwnedCalls(cows[s].state)]
    /\ origin' = Forget(origin, s)
    /\ UNCHANGED <<ty, refs, ext>>

\* The container in slot s goes out of scope.
DropCow(s) ==
    /\ s \in Usable
    /\ LET hp == DropData(cows[s].state, heap) IN
         heap' = hp /\ Havoc(heap, hp)
    /\ cows' = [cows EXCEPT ![s] = Vacant]
    /\ last' = Note("drop", s, 0, DefaultVal(ty), DefaultVal(ty))
    /\ origin' = Forget(origin, s)
    /\ UNCHANGED <<ty, refs, ext>>

\* ------------------------------------------------------------- Next
Next ==
    \/ \E s \in Slots, v \in Vals(ty) : Owned(s, v)
    \/ \E s \in Slots, e \in Exts : Borrowed(s, e)
    \/ \E s \in Slots, v \in Vals(ty), keep \in {0, 1} : Shared(s, v, keep)
    \/ \E h \in Cells : UserRcDrop(h)
    \/ \E s, t \in Slots : Move(s, t)
    \/ \E s, t \in Slots : Clone(s, t)
    \/ \E s \in Slots : ToMut(s)
    \/ \E s \in Slots, v \in Ints : Write(s, v)
    \/ \E s \in Slots, ch \in Chars : Push(s, ch)
    \/ \E s \in Slots : Pop(s)
    \/ \E s \in Slots, i \in 1 .. MaxLen, ch \in Chars : SetByte(s, i, ch)
    \/ \E s \in Slots : GuardDrop(s)
    \/ \E s, t \in Slots : TakeOwnership(s, t)
    \/ \E s \in Slots : IntoInner(s)
    \/ \E s \in Slots : DropCow(s)

Spec == Init /\ [][Next]_vars

\* mem::forget(guard): the Ref is discarded and Drop for Ref never runs;
\* the mutable borrow of the parent ends all the same.
ForgetRef(s) ==
    /\ Guarded(s)
    /\ refs' = [refs EXCEPT ![s] = NoRef]
    /\ last' = Note("forget", s, 0, RefVal(s), RefVal(s))
    /\ UNCHANGED <<ty, cows, heap, ext, junk, origin>>

\* The program with callers that may also leak a Ref.
NextLeak ==
    \/ Next
    \/ \E s \in Slots : ForgetRef(s)

SpecLeak == Init /\ [][NextLeak]_vars

\* ------------------------------------------------------------- claims

\* C1: whenever no Ref is open on a container, the reference deref builds
\* from (ptr_mask, ptr_displacement) is the reference of the current
\* state's own target: dereference by metadata agrees with dereference
\* by dispatching on the state tag.
C1_MetadataAgreesWithState ==
    \A s \in Usable : DerefPtr(s) = StatePtr(s)

\* y is a clone of x, or x and y are clones of the same container.
Related(x, y) ==
    /\ x # y /\ Live(x) /\ origin[y] # 0
    /\ (origin[y] = x \/ origin[x] = origin[y])

\* The step is to_mut on y, a write through y's Ref, or its release.
MutatingStep(y) == last'.op \in {"to_mut", "write", "release"} /\ last'.slot = y

C2_Step ==
    \A y \in Slots : MutatingStep(y) =>
        /\ \A x \in Slots : Related(x, y) /\ ~Guarded(x) =>
              /\ DerefPtr(x)' = DerefPtr(x)
              /\ DerefVal(x)' = DerefVal(x)
        /\ origin[y] # 0 =>
              /\ ext' = ext
              /\ \A h \in Cells : heap[h].strong > 0 /\ heap'[h].strong > 0
                                    => heap'[h].val = heap[h].val

\* C2: copy-on-write isolation.  When a clone y of a container x calls
\* to_mut, writes through the Ref, or releases it, the reference and the
\* value x dereferences to do not change, nor do those of any other clone
\* of x, nor the caller's borrowed variables, nor the target of any shared
\* backing that stays alive.
C2_CloneMutationIsolated == [][C2_Step]_vars

\* C3: right after owned(v), borrowed(r) or shared(s), the new container
\* dereferences to a value equal to the constructor's input, for the
\* inline u32 and for the String with its separate buffer.
C3_ConstructorsDerefToInput ==
    last.op \in {"owned", "borrowed", "shared"} => DerefVal(last.slot) = last.ret

C3_Witness ==
    /\ last.op = "owned" /\ ty = "str" /\ last.ret # <<>>
    /\ DerefVal(last.slot) = last.ret

\* A container that can be dereferenced and is Borrowed or Shared.
Indirect(s) == s \in Usable /\ Tag(s) \in {"Borrowed", "Shared"}

C4_Step ==
    \A s \in Slots : Indirect(s) =>
        /\ DerefPtr(s) = StatePtr(s)
        /\ \A t \in Slots :
              (last'.op \in {"move", "clone"} /\ last'.src = s /\ last'.slot = t)
                 => DerefPtr(t)' = DerefPtr(s)
        /\ (cows'[s].state = cows[s].state) => DerefPtr(s)' = DerefPtr(s)

\* C4: a container in Borrowed or Shared state dereferences to the address
\* of the borrowed referent (of the shared backing's target); the address
\* is the same after a move, the same for a clone, and does not change
\* while the container stays in that state.
C4_AddressStable == [][C4_Step]_vars

C4_Witness ==
    /\ last.op = "clone" /\ last.src # 0
    /\ Tag(last.src) = "Shared" /\ Tag(last.slot) = "Shared"
    /\ origin[last.slot] = last.src
    /\ DerefPtr(last.slot) = DerefPtr(last.src)
    /\ DerefPtr(last.slot) = ConstDeref(cows[last.src].state.s, heap)

\* C5: into_inner returns a value equal to what dereference gave just
\* before the call, and the container take_ownership returns
\* dereferences to what dereference gave just before the call.
C5_ConsumersKeepDerefValue ==
    /\ last.op = "into_inner" => last.ret = last.pre
    /\ last.op = "take_ownership" => DerefVal(last.slot) = last.pre

\* C6: while the Ref of to_mut is open the container is Owned and the Ref
\* points at the owned value inside that container; when the Ref opens,
\* the owned value equals what the container dereferenced to just before.
C6_GuardOverOwnedValue ==
    /\ \A s \in Slots : Guarded(s) => Tag(s) = "Owned" /\ RefTarget(s) = s
    /\ last.op = "to_mut" => RefVal(last.slot) = last.pre

\* C7: right after a Ref is released the container's metadata is that of
\* the current owned value, and it dereferences to the value as last
\* written through the Ref, also when a write moved the storage.
C7_ReleaseRecomputes ==
    last.op = "release" =>
        /\ DerefPtr(last.slot) = StatePtr(last.slot)
        /\ DerefVal(last.slot) = last.ret

C7_Witness ==
    /\ last.op = "release" /\ last.moved
    /\ DerefVal(last.slot) = last.ret /\ last.ret # <<>>

\* C8: ==, !=, partial_cmp, cmp, <, <=, >, >= and hash of two containers
\* give what the same operation gives on their targets; containers with
\* equal targets are equal and hash identically.
C8_ComparisonsFollowTargets ==
    \A a, b \in Usable :
        LET v == StateVal(a)
            w == StateVal(b)
        IN /\ Eq(a, b) = (v = w)
           /\ Ne(a, b) = (v # w)
           /\ PartialCmp(a, b) = ValCmp(v, w)
           /\ Cmp(a, b) = ValCmp(v, w)
           /\ Lt(a, b) = (ValCmp(v, w) < 0)
           /\ Le(a, b) = (ValCmp(v, w) <= 0)
           /\ Gt(a, b) = (ValCmp(v, w) > 0)
           /\ Ge(a, b) = (ValCmp(v, w) >= 0)
           /\ Hash(a) = HashFeed(v)
           /\ (v = w => Hash(a) = Hash(b))

\* The containers in Shared state on the backing in cell h.
RcHolders(h) ==
    Cardinality({s \in Slots : Live(s) /\ Tag(s) = "Shared" /\ cows[s].state.s = h})

RcAccounted ==
    \A h \in Cells :
        /\ heap[h].strong = RcHolders(h) + heap[h].user
        /\ RcHolders(h) + heap[h].user > 0 => heap[h].live

\* The slot of the container a step operated on.
Subject == IF last'.op \in {"clone", "take_ownership", "move"} THEN last'.src ELSE last'.slot

C9_Step ==
    /\ RcAccounted /\ RcAccounted'
    /\ (last'.op \in {"clone", "drop", "to_mut", "take_ownership", "into_inner"}
          /\ cows[Subject].state.tag = "Shared") =>
          LET h == cows[Subject].state.s IN
          IF last'.op = "clone" THEN heap'[h].strong = heap[h].strong + 1
          ELSE IF heap[h].strong > 1 THEN heap'[h].strong = heap[h].strong - 1
          ELSE ~heap'[h].live
    /\ (last'.op \in {"clone", "drop", "to_mut", "take_ownership", "into_inner", "move"}
          /\ cows[Subject].state.tag = "Borrowed") =>
          \A h \in Cells : heap[h].live => heap'[h] = heap[h]

\* C9: the reference count of a shared backing is the number of
\* containers in Shared state on it plus the handles the caller kept, and
\* the backing is alive while the count is not zero; clone of a Shared
\* container adds one unit; drop, to_mut, take_ownership and into_inner
\* of one release one unit; no operation on a Borrowed container frees or
\* releases anything.
C9_SharedAccounting == [][C9_Step]_vars

C9_Witness ==
    /\ last.op = "drop"
    /\ \E s \in Usable :
         /\ Tag(s) = "Shared" /\ origin[s] = 0
         /\ heap[cows[s].state.s].strong = 1
         /\ heap[cows[s].state.s].user = 0
    /\ Cardinality(Usable) = 1

\* C10: after a move of an Owned container it dereferences to the same
\* value, through the reference of the owned value at its new place: a
\* displacement relative to the container for the inline u32, the
\* absolute address of the buffer for the String.
C10_MoveKeepsOwnedTarget ==
    (last.op = "move" /\ Tag(last.slot) = "Owned") =>
        LET c == cows[last.slot] IN
        /\ DerefVal(last.slot) = last.pre
        /\ DerefPtr(last.slot) = StatePtr(last.slot)
        /\ ty = "u32" => c.ptr_mask = AllOnes /\ c.ptr_displacement.addr = OwnedOffset
        /\ ty = "str" => c.ptr_mask = 0 /\ c.ptr_displacement = Borrow(c.state.o, SlotAddr(last.slot))

\* C11: while a Ref is open the container's metadata is the placeholder of
\* borrow_replacement and resolves to a valid address: for str the empty
\* placeholder reference, in absolute mode; for u32, whose replacement is
\* the identity, the address of the owned value inside the container,
\* whether the container was Owned before to_mut or was just promoted.
C11_PlaceholderResolves ==
    \A s \in Slots : Guarded(s) =>
        IF ty = "str"
        THEN cows[s].ptr_mask = 0 /\ DerefPtr(s) = Ptr(StaticEmpty, 0)
        ELSE DerefPtr(s) = StatePtr(s)

\* The target of the container in slot s lies inside the container.
Inside(s) ==
    /\ StatePtr(s).addr >= SlotAddr(s)
    /\ StatePtr(s).addr < SlotAddr(s) + SizeOfSelf

NewCells == {h \in Cells : ~heap[h].live /\ heap'[h].live}

C13_Step ==
    LET op == last'.op
        s == Subject
        t == last'.slot
    IN /\ op = "clone" =>
            /\ cows'[s] = cows[s]
            /\ cows'[t].state.tag = cows[s].state.tag
            /\ cows[s].state.tag = "Borrowed" =>
                  cows'[t].state.r = cows[s].state.r /\ heap' = heap
            /\ cows[s].state.tag = "Shared" =>
                  /\ cows'[t].state.s = cows[s].state.s
                  /\ NewCells = {}
                  /\ \A h \in Cells : heap'[h].val = heap[h].val
       /\ op \in {"to_mut", "take_ownership", "into_inner"} =>
            /\ last'.conv = (IF cows[s].state.tag \in {"Borrowed", "Shared"} THEN 1 ELSE 0)
            /\ op # "into_inner" => cows'[t].state.tag = "Owned"
            /\ cows[s].state.tag = "Owned" =>
                  /\ op # "into_inner" => cows'[t].state = cows[s].state /\ heap' = heap
                  /\ op = "into_inner" => last'.ret = OwnedVal(cows[s].state.o, heap)
            /\ cows[s].state.tag \in {"Borrowed", "Shared"} =>
                  /\ op # "into_inner" =>
                        /\ OwnedVal(cows'[t].state.o, heap') = StateVal(s)
                        /\ Cardinality(NewCells) =
                              (IF ty = "str" /\ StateVal(s) # <<>> THEN 1 ELSE 0)
                  /\ op = "into_inner" => last'.ret = StateVal(s)

\* C13: promotion happens only where stated.  clone leaves the original as
\* it was and gives a container of the same kind: Borrowed with the same
\* reference and the heap untouched, Shared on the same backing with no
\* allocation.  to_mut, take_ownership and into_inner call to_owned once
\* when the container is Borrowed or Shared, the result holding (being)
\* one copy of the target, and not at all when it is Owned, the stored
\* owned value then being kept as it is.
C13_PromotionOnlyWhereStated == [][C13_Step]_vars

C13_Witness ==
    /\ last.op = "to_mut" /\ last.conv = 1 /\ ty = "str"
    /\ Tag(last.slot) = "Owned" /\ RefVal(last.slot) # <<>>
    /\ \E s \in Usable : Tag(s) = "Shared" /\ origin[last.slot] = s

\* y is a clone, made of the Owned container that origin[y] still is.
OwnedClone(y) ==
    /\ y \in Usable /\ Tag(y) = "Owned"
    /\ origin[y] # 0 /\ Tag(origin[y]) = "Owned"

\* The step mutates or destroys the container in slot x.
Disturbs(x) ==
    \/ last'.op \in {"to_mut", "write", "release", "drop", "into_inner"} /\ last'.slot = x
    \/ last'.op = "take_ownership" /\ last'.src = x

C14_Step ==
    \A y \in Slots : OwnedClone(y) =>
        /\ DerefPtr(y) = StatePtr(y)
        /\ DerefVal(y) = OwnedVal(cows[y].state.o, heap)
        /\ Disturbs(origin[y]) =>
              /\ DerefPtr(y)' = DerefPtr(y)
              /\ DerefVal(y)' = DerefVal(y)

\* C14: a clone of an Owned container dereferences to its own copy of the
\* value, not to the original's storage, and a step that mutates the
\* original through to_mut (relocating its storage or not) or destroys it
\* changes neither the reference nor the value the clone dereferences to;
\* for the inline u32 and for the String with its separate buffer.
C14_OwnedCloneIndependent == [][C14_Step]_vars

\* C15: when the borrow of a Ref has ended, by its release or by the Ref
\* being discarded without its Drop running, set_ptr has run since the
\* to_mut: the metadata is what set_ptr computes from the state, and
\* dereference gives the owned value, never the placeholder.
C15_RecomputedWhenBorrowEnds ==
    last.op \in {"release", "forget"} =>
        /\ cows[last.slot] = SetPtr(cows[last.slot], SlotAddr(last.slot), heap)
        /\ DerefPtr(last.slot) = StatePtr(last.slot)
        /\ DerefVal(last.slot) = last.ret

C16_Step ==
    \A s \in Slots :
        /\ (last.op = "to_mut" /\ last.slot = s /\ last'.op = "release" /\ last'.slot = s) =>
              /\ DerefVal(s)' = last.pre
              /\ last.conv = 0 => cows'[s] = last.was /\ heap' = heap
        /\ (last.op = "release" /\ last.slot = s /\ last'.op = "to_mut" /\ last'.slot = s) =>
              /\ last'.conv = 0
              /\ cows'[s].state = cows[s].state
              /\ heap' = heap

\* C16: a Ref opened by to_mut and released with no write in between
\* leaves the container dereferencing to the value it dereferenced to
\* before the to_mut, whatever state it started in, and leaves a container
\* that was already Owned with the metadata and state it had; a to_mut
\* that follows a release converts nothing and changes neither the owned
\* value nor the heap.
C16_ToMutReleaseIsNeutral == [][C16_Step]_vars

====
